---- MODULE Spec2Model ----
(***************************************************************************)
(* Model of the go-data-exporter streaming writers (CSV, JSON, HTML, XML)  *)
(* driven over a row source (in-memory slice or database/sql cursor).      *)
(*                                                                         *)
(* A text is a sequence of string fragments.  A cell value is a record     *)
(* [ty, v]: the Go runtime type of the value and its payload as text.      *)
(* The output is the sequence of writes issued to the io.Writer, each      *)
(* flagged with whether the sink accepted it.                              *)
(***************************************************************************)
EXTENDS Integers, Sequences, FiniteSets

\* ------------------------------------------------------------------ bounds
MaxRows  == 3      \* longest source table
MaxLimit == 2      \* largest configured row limit
BufCap   == 2      \* records the csv.Writer buffer holds before it flushes
MaxText  == 3      \* longest payload of a value handed to ToString alone
MaxCalls == 6      \* calls a caller makes on an in-memory source on its own

\* ------------------------------------------------------------- cell values
NilV      == [ty |-> "nil",       v |-> <<>>]
Int1      == [ty |-> "int",       v |-> <<"1">>]
StrA      == [ty |-> "string",    v |-> <<"a">>]
StrLt     == [ty |-> "string",    v |-> <<"<", "b", ">">>]
ZeroInstant == <<"0001-01-01T00:00:00Z">>
TimeZero  == [ty |-> "time.Time", v |-> ZeroInstant]
MarshNull == [ty |-> "json.Marshaler", v |-> <<"[", "]">>]

\* rows the sources are built from; the last one is shorter than the others
FullRows == { <<Int1, StrLt>>, <<NilV, TimeZero>> }
RowPool  == FullRows \cup { <<MarshNull>> }

RECURSIVE SeqsUpTo(_, _)
SeqsUpTo(S, n) ==
  IF n = 0 THEN { <<>> }
  ELSE LET shorter == SeqsUpTo(S, n - 1)
       IN  shorter \cup { Append(q, x) : q \in { p \in shorter : Len(p) = n - 1 }, x \in S }

\* ------------------------------------------------------------ tostring.go
NULL == [String |-> <<>>, IsNULL |-> TRUE]

RECURSIVE TrimLeft(_, _)
TrimLeft(s, c) == IF s # <<>> /\ Head(s) = c THEN TrimLeft(Tail(s), c) ELSE s

RECURSIVE TrimRight(_, _)
TrimRight(s, c) ==
  IF s # <<>> /\ s[Len(s)] = c THEN TrimRight(SubSeq(s, 1, Len(s) - 1), c) ELSE s

\* strings.Trim(s, cutset) for a one-character cutset
Trim(s, c) == TrimRight(TrimLeft(s, c), c)

Primitive == { "string", "[]byte", "bool", "int", "int64", "uint", "float64" }

JsonNullTexts == { <<"[", "]">>, <<"{", "}">>, <<"null">> }

\* runtime types of the values handed to ToString that are none of its
\* switch cases: which of them implement json.Marshaler and fmt.Stringer
Marshalers == { "json.Marshaler", "json.Marshaler+fmt.Stringer" }
Stringers  == { "fmt.Stringer", "json.Marshaler+fmt.Stringer" }

\* v.MarshalJSON(): the value's own serialization, which reports an error
\* for a value that holds nothing to serialize
MarshalJSON(v) == [data |-> v.v, err |-> v.v = <<>>]

\* v.String()
StringMethod(v) == <<"String:">> \o v.v

\* escaping of one character inside a JSON string (HTML-safe, as encoding/json)
JsonEscape(ch) ==
  CASE ch = "<" -> <<"\\u003c">> [] ch = ">" -> <<"\\u003e">> [] ch = "&" -> <<"\\u0026">>
    [] ch = "\"" -> <<"\\", "\"">> [] OTHER -> <<ch>>

RECURSIVE JsonEscapeText(_)
JsonEscapeText(t) == IF t = <<>> THEN <<>> ELSE JsonEscape(Head(t)) \o JsonEscapeText(Tail(t))

\* a JSON string literal
JsonQuote(t) == <<"\"">> \o JsonEscapeText(t) \o <<"\"">>

\* json.Marshal of one value: [data, err].  A channel has no encoding, nor
\* has a struct with a NaN field; a Marshaler's output is taken as it is
JsonMarshal(v) ==
  IF v.ty = "nil" THEN [data |-> <<"null">>, err |-> FALSE]
  ELSE IF v.ty \in Marshalers THEN MarshalJSON(v)
  ELSE IF v.ty \in {"string", "named string", "time.Time", "fmt.Stringer"}
       THEN [data |-> JsonQuote(v.v), err |-> FALSE]
  ELSE IF v.ty = "chan" \/ (v.ty = "struct" /\ v.v = <<"NaN">>)
       THEN [data |-> <<>>, err |-> TRUE]
  ELSE [data |-> v.v, err |-> FALSE]

\* fmt.Sprintf("%v", v)
DefaultText(v) == <<"%v:">> \o v.v

\* the text of a serialization: enclosing quotes trimmed, NULL inferred
JsonText(data) ==
  LET s == Trim(data, "\"")
  IN  IF s \in JsonNullTexts THEN NULL ELSE [String |-> s, IsNULL |-> FALSE]

\* variant: the fmt.Stringer test comes before the json.Marshaler test
MarshalerUnlessStringer(v) == v.ty \in Marshalers \ Stringers /\ ~MarshalJSON(v).err

\* `v.(json.Marshaler)` succeeds and MarshalJSON returns no error
MarshalerApplies(v) == v.ty \in Marshalers /\ ~MarshalJSON(v).err

\* ToString with the return statement it leaves by: [at, ret]
Dispatch(v) ==
  IF v.ty = "nil" THEN [at |-> "nil", ret |-> NULL]
  ELSE IF v.ty \in Primitive
       THEN [at |-> "primitive", ret |-> [String |-> v.v, IsNULL |-> FALSE]]
  ELSE IF v.ty = "time.Time"
       THEN [at |-> "time.Time",
             ret |-> IF v.v = ZeroInstant THEN NULL ELSE [String |-> v.v, IsNULL |-> FALSE]]
  ELSE IF MarshalerApplies(v)
       THEN [at |-> "json.Marshaler", ret |-> JsonText(MarshalJSON(v).data)]
  ELSE IF v.ty \in Stringers
       THEN [at |-> "fmt.Stringer", ret |-> [String |-> StringMethod(v), IsNULL |-> FALSE]]
  ELSE IF ~JsonMarshal(v).err
       THEN [at |-> "json.Marshal", ret |-> JsonText(JsonMarshal(v).data)]
  ELSE [at |-> "%v", ret |-> [String |-> DefaultText(v), IsNULL |-> FALSE]]

ToString(v) == Dispatch(v).ret

\* ------------------------------------------------------------- scanner
\* variant: the names count from 1
ColumnNameFromOne(i) == <<"column_1", "column_2", "column_3", "column_4">>[i + 1]

ColumnName(i) == <<"column_0", "column_1", "column_2", "column_3">>[i + 1]

\* sliceRowsScanner.Columns: column metadata inferred from the first row
SliceColumns(data) ==
  IF Len(data) # 0
  THEN [i \in 1..Len(data[1]) |->
          [index |-> i - 1, name |-> ColumnName(i - 1), goType |-> data[1][i].ty]]
  ELSE <<>>

\* scanner.FromData
FromData(data) ==
  [kind |-> "go-slice", rows |-> data, columns |-> SliceColumns(data),
   lastRow |-> <<>>, cursor |-> 0, err |-> "nil", scanErr |-> "nil"]

SqlColumns == << [index |-> 0, name |-> "id",   goType |-> "INT"],
                 [index |-> 1, name |-> "name", goType |-> "TEXT"] >>

\* scanner.FromSQL over a result set of two columns
FromSQL(data) ==
  [kind |-> "sql", rows |-> data, columns |-> SqlColumns,
   lastRow |-> <<>>, cursor |-> 0, err |-> "nil", scanErr |-> "nil"]

\* whether a call to the source may fail: a database cursor can fail at any
\* call, the in-memory source has nothing that fails
Faults(s) == IF s.kind = "sql" THEN BOOLEAN ELSE {FALSE}

\* Rows.Columns: [err, cols]
Columns(s, fault) ==
  IF s.kind = "sql" /\ fault
  THEN [err |-> "sql: column types failed", cols |-> <<>>]
  ELSE [err |-> "nil", cols |-> s.columns]

\* variant: Next of the slice scanner moves the cursor, as sql.Rows.Next does
RowsNextConsumes(s, fault) ==
  IF s.cursor >= Len(s.rows) THEN [ok |-> FALSE, rows |-> s]
  ELSE [ok |-> TRUE, rows |-> [s EXCEPT !.lastRow = << s.rows[s.cursor + 1] >>,
                                       !.cursor = s.cursor + 1]]

\* Rows.Next: [ok, rows'].  The slice scanner only caches the current row;
\* sql.Rows.Next moves the cursor, and on a failure it returns false and
\* keeps the error for Err
RowsNext(s, fault) ==
  IF s.kind = "go-slice"
  THEN IF s.cursor >= Len(s.rows) THEN [ok |-> FALSE, rows |-> s]
       ELSE [ok |-> TRUE, rows |-> [s EXCEPT !.lastRow = << s.rows[s.cursor + 1] >>]]
  ELSE IF fault THEN [ok |-> FALSE, rows |-> [s EXCEPT !.err = "driver: bad connection"]]
  ELSE IF s.cursor >= Len(s.rows) THEN [ok |-> FALSE, rows |-> s]
       ELSE [ok |-> TRUE, rows |-> [s EXCEPT !.cursor = s.cursor + 1]]

\* a failed ScanRow: the scanner is left as it was; scanErr keeps the error
\* the call returned, for the properties to refer to
ScanFails(s, e) == [err |-> e, values |-> <<>>, rows |-> [s EXCEPT !.scanErr = e]]

\* variant: only a row shorter than the first one is rejected
RowTooShort(s) == s.cursor # 0 /\ Len(s.lastRow[1]) < Len(s.columns)

\* `s.cursor != 0` and `len(s.lastRow) != len(s.columns)`
LengthMismatch(s) == s.cursor # 0 /\ Len(s.lastRow[1]) # Len(s.columns)

\* Rows.ScanRow: [err, values, rows']
ScanRow(s, fault) ==
  IF s.kind = "go-slice"
  THEN IF s.cursor >= Len(s.rows)
       THEN ScanFails(s, "EOF")
       ELSE IF s.lastRow = <<>>
       THEN ScanFails(s, "scan called without calling Next")
       ELSE IF LengthMismatch(s)
       THEN ScanFails(s, "length of row != length of the first row")
       ELSE [err |-> "nil", values |-> s.lastRow[1],
             rows |-> [s EXCEPT !.cursor = s.cursor + 1]]
  ELSE IF fault THEN ScanFails(s, "sql: scan failed")
  ELSE [err |-> "nil", values |-> s.rows[s.cursor], rows |-> s]

\* Rows.Err
RowsErr(s) == s.err

Sources ==
  { FromData(d) : d \in SeqsUpTo(RowPool, MaxRows) }
    \cup { FromSQL(d) : d \in SeqsUpTo(FullRows, MaxRows) }

\* ------------------------------------------------------ codec configuration
Limits == -1..MaxLimit

\* `make(map[reflect.Type]func(any, scanner.Metadata) tostring.String)`
NoMapper   == [t \in {} |-> NULL]

\* variant: a type that has an override keeps it
WithCustomTypeKeepsFirst(m, typ, fn) ==
  [t \in DOMAIN m \cup {typ} |-> IF t \in DOMAIN m THEN m[t] ELSE fn]

\* the option returned by WithCustomType[T](fn), applied to the override map:
\* `c.customMapper[typ] = ...`; a callback is held as the result it gives
WithCustomType(m, typ, fn) ==
  [t \in DOMAIN m \cup {typ} |-> IF t = typ THEN fn ELSE m[t]]

\* `for _, opt := range opts { opt(c) }`
RECURSIVE ApplyOptions(_, _)
ApplyOptions(m, opts) ==
  IF opts = <<>> THEN m
  ELSE ApplyOptions(WithCustomType(m, Head(opts).typ, Head(opts).fn), Tail(opts))

\* the options of a codec with overrides, in the order they are given:
\* WithCustomType[int] with a callback that gives a text, WithCustomType[string]
\* and WithCustomType[any] with callbacks that give a text, and WithCustomType[int]
\* again with a callback that reports every value as NULL; reflect.TypeOf of
\* the zero value of an interface type is nil
Registrations ==
  << [typ |-> "int",    fn |-> [String |-> <<"first">>, IsNULL |-> FALSE]],
     [typ |-> "string", fn |-> [String |-> <<"override">>, IsNULL |-> FALSE]],
     [typ |-> "nil",    fn |-> [String |-> <<"override">>, IsNULL |-> FALSE]],
     [typ |-> "int",    fn |-> NULL] >>

Overrides  == ApplyOptions(NoMapper, Registrations)
Mappers    == { NoMapper, Overrides }

NoHeader      == [set |-> FALSE, h |-> <<>>]
CustomHeaders == { NoHeader,
                   [set |-> TRUE, h |-> << <<"h1">>, <<"h2">> >>],
                   [set |-> TRUE, h |-> << <<"h1">> >>] }

HtmlNull == <<"<span style=\"color:#aaaaaa;\">[NULL]</span>">>

\* csvcodec.New applied to options
CsvCodecs ==
  [kind : {"csv"}, customMapper : Mappers, preProcessorFunc : {"nil", "fn"},
   writeHeader : BOOLEAN, writeHeaderNoData : BOOLEAN, customHeader : CustomHeaders,
   newlineDelimited : {FALSE}, nullValue : { <<>> }, limit : Limits]

\* jsoncodec.New applied to options
JsonCodecs ==
  [kind : {"json"}, customMapper : Mappers, preProcessorFunc : {"nil", "fn"},
   writeHeader : {FALSE}, writeHeaderNoData : {FALSE}, customHeader : {NoHeader},
   newlineDelimited : BOOLEAN, nullValue : { <<>> }, limit : Limits]

\* htmlcodec.New applied to options
HtmlCodecs ==
  [kind : {"html"}, customMapper : Mappers, preProcessorFunc : {"nil", "fn"},
   writeHeader : BOOLEAN, writeHeaderNoData : BOOLEAN, customHeader : {NoHeader},
   newlineDelimited : {FALSE}, nullValue : {HtmlNull}, limit : Limits]

\* xmlcodec.New applied to options
XmlCodecs ==
  [kind : {"xml"}, customMapper : Mappers, preProcessorFunc : {"nil", "fn"},
   writeHeader : {FALSE}, writeHeaderNoData : {FALSE}, customHeader : {NoHeader},
   newlineDelimited : {FALSE}, nullValue : { <<>> }, limit : Limits]

Codecs == CsvCodecs \cup JsonCodecs \cup HtmlCodecs \cup XmlCodecs

\* ------------------------------------------------------------------ state
VARIABLES
  c,          \* the codec (receiver of Write): its configuration
  input,      \* the table the row source was built from, as the caller passed it
  rows,       \* the row source
  sinkOK,     \* whether the io.Writer still accepts writes
  out,        \* writes issued to the io.Writer, in order
  buf,        \* records held in the csv.Writer buffer
  bufErr,     \* sticky error of the csv.Writer buffer
  pc,         \* position in Write
  deferred,   \* whether the deferred function of Write is registered
  cols,       \* local: column metadata
  header,     \* local: header record of the CSV writer
  rowID,      \* local: row counter
  values,     \* local: raw values of the current row
  row,        \* local: rendered current row, after the filter
  cur,        \* source index of the current row (0: none)
  hist,       \* per scanned row: source index, row numbers passed, filter's decision
  latePulls,  \* source calls made after a write to the sink failed
  ret         \* value returned by Write ("": not returned yet)

vars == <<c, input, rows, sinkOK, out, buf, bufErr, pc, deferred, cols, header, rowID,
          values, row, cur, hist, latePulls, ret>>

locals == <<cols, header, rowID, values, row, cur>>

\* a write to the sink: kind, source row it belongs to, name, texts
Tok(t, r, n, s) == [t |-> t, r |-> r, n |-> n, s |-> s, ok |-> TRUE]

\* writer.Write for each token, the returned error being ignored
Put(o, toks) == o \o [i \in 1..Len(toks) |-> [toks[i] EXCEPT !.ok = sinkOK]]

Failed(o) == { i \in 1..Len(o) : ~o[i].ok }
SinkFailed == Failed(out) # {}

Pull(n) == IF SinkFailed THEN latePulls + n ELSE latePulls

Init ==
  /\ c \in Codecs
  /\ rows \in Sources
  /\ input = rows.rows
  /\ sinkOK = TRUE
  /\ out = <<>>
  /\ buf = <<>>
  /\ bufErr = FALSE
  /\ pc = "begin"
  /\ deferred = FALSE
  /\ cols = <<>>
  /\ header = <<>>
  /\ rowID = 0
  /\ values = <<>>
  /\ row = <<>>
  /\ cur = 0
  /\ hist = <<>>
  /\ latePulls = 0
  /\ ret = ""

\* the io.Writer starts failing (closed pipe, full disk)
SinkFail ==
  /\ pc # "done"
  /\ sinkOK
  /\ sinkOK' = FALSE
  /\ UNCHANGED <<c, input, rows, out, buf, bufErr, pc, deferred, locals, hist, latePulls, ret>>

\* ------------------------------------------------------------ shared steps
Names(cs) == [i \in 1..Len(cs) |-> <<cs[i].name>>]

\* the result of the filter callback on a kept row: the row itself or the
\* row with its first cell rewritten
Rewrites(r) == IF r = <<>> THEN { r } ELSE { r, [r EXCEPT ![1] = <<"x">>] }

\* what the filter callback may answer: keep or drop (no callback: keep)
Keeps == IF c.preProcessorFunc = "nil" THEN {TRUE} ELSE BOOLEAN

\* variant: a failed ScanRow skips the row and the loop goes on
ScanErrorContinue == "next"

\* variant: a failed ScanRow is tried again
ScanErrorRetry == "scan"

\* `if err != nil { return err }` after ScanRow: where Write goes next
ScanErrorExit == "return"

\* variant: the error of Columns is dropped and Write goes on to the loop
ColumnsErrorIgnored == "next"

\* `if err != nil { return err }` after Columns: where Write goes next
ColumnsErrorExit == "return"

\* indexing values or cols past the end panics
IndexPanic == "panic: index out of range"

\* variant: the limit is counted down in the codec with every row written
ReceiverCountsDown(cc) == [cc EXCEPT !.limit = IF @ > 0 THEN @ - 1 ELSE @]

\* the receiver of Write after a row has been written: the loop body reads
\* the fields of c and assigns to none
Receiver(cc) == cc

\* the row number the CSV, HTML and JSON writers put in Metadata.RowID and
\* pass to the filter: `RowID: rowID`, `c.preProcessorFunc(rowID, row)`
RowNumber(id) == id

\* variant: the XML writer passes its counter as it is
XmlRowNumberFromZero(id) == id

\* the XML writer counts from 0: `RowID: rowID + 1`,
\* `c.preProcessorFunc(rowID+1, row)`
XmlRowNumber(id) == id + 1

\* one pass of the loop body over source row k: the row number n built into
\* the Metadata of its cells, the row number given to the filter (0: there
\* is no filter to call) and the filter's decision
Pass(k, n, keep) ==
  [r |-> k, keep |-> keep, meta |-> n,
   filter |-> IF c.preProcessorFunc = "nil" THEN 0 ELSE n]

\* source index of the row ScanRow has just returned
ScannedIndex(s) == s.cursor

\* `for rows.Next()`: loop head; at the end of iteration Write returns
\* rows.Err() (the JSON writer returns nil)
LoopNext ==
  /\ pc = "next"
  /\ \E fault \in Faults(rows) :
     LET n == RowsNext(rows, fault)
     IN  /\ rows' = n.rows
         /\ IF n.ok
            THEN /\ pc' = "scan"
                 /\ ret' = ret
            ELSE /\ pc' = "return"
                 /\ ret' = IF c.kind = "json" THEN "nil" ELSE RowsErr(n.rows)
  /\ latePulls' = Pull(1)
  /\ UNCHANGED <<c, input, sinkOK, out, buf, bufErr, deferred, locals, hist>>

\* ------------------------------------------------------------- csv.go
\* csv.Writer.Write: the record goes to the buffer; a full buffer is
\* written to the sink first, and a failed write makes the error sticky
CsvWriterWrite(w, rec) ==
  IF w.err THEN w
  ELSE IF Len(w.buf) >= BufCap
  THEN IF sinkOK
       THEN [buf |-> <<rec>>, out |-> Put(w.out, w.buf), err |-> FALSE]
       ELSE [buf |-> <<>>, out |-> Put(w.out, w.buf), err |-> TRUE]
  ELSE [w EXCEPT !.buf = Append(w.buf, rec)]

\* variant: returning leaves the buffered records where they are
CsvWriterKeepsBuffer(w) == w

\* csv.Writer.Flush, its error being ignored
CsvWriterFlush(w) ==
  IF w.err \/ w.buf = <<>> THEN w
  ELSE [buf |-> <<>>, out |-> Put(w.out, w.buf), err |-> ~sinkOK]

\* variant: only a custom header that is too long is rejected
HeaderTooLong(columnNames) ==
  c.customHeader.set /\ Len(c.customHeader.h) > Len(columnNames)

\* custom header of the wrong length
HeaderMismatch(columnNames) ==
  c.customHeader.set /\ Len(c.customHeader.h) # Len(columnNames)

\* variant: the header-when-empty switch is ignored
CsvEagerHeaderAlways(hd) == c.writeHeader /\ Len(hd) # 0

\* header written before the loop
CsvEagerHeader(hd) == c.writeHeader /\ c.writeHeaderNoData /\ Len(hd) # 0

\* variant: the deferred header is not tied to the first kept row
CsvLazyHeaderEveryRow(id) == c.writeHeader /\ ~c.writeHeaderNoData

\* header written with the first kept row
CsvLazyHeader(id) == c.writeHeader /\ id = 1 /\ ~c.writeHeaderNoData

\* variant: the limit is compared with the rows scanned, not the rows kept
CsvLimitCountsScanned(id) == c.limit >= 0 /\ Len(hist) >= c.limit

\* `c.limit >= 0 && rowID >= c.limit`
CsvLimitReached(id) == c.limit >= 0 /\ id >= c.limit

\* csvCodec.toString
CsvToString(v) ==
  IF v.ty = "nil" THEN c.nullValue
  ELSE IF v.ty \in DOMAIN c.customMapper
       THEN LET s == c.customMapper[v.ty] IN IF s.IsNULL THEN c.nullValue ELSE s.String
       ELSE LET s == ToString(v) IN IF s.IsNULL THEN c.nullValue ELSE s.String

\* Write up to the row loop
CsvBegin ==
  /\ pc = "begin" /\ c.kind = "csv"
  /\ \E fault \in Faults(rows) :
     LET cc == Columns(rows, fault)
         cs == cc.cols
         columnNames == Names(cs)
         bad == HeaderMismatch(columnNames)
         hd  == IF c.customHeader.set THEN c.customHeader.h ELSE columnNames
         w0  == [buf |-> buf, out |-> out, err |-> bufErr]
         w1  == IF CsvEagerHeader(hd)
                THEN CsvWriterWrite(w0, Tok("header", 0, "", hd)) ELSE w0
     IN  IF cc.err # "nil"
         THEN /\ ret' = cc.err /\ pc' = ColumnsErrorExit
              /\ UNCHANGED <<cols, header, deferred, buf, out, bufErr, rowID>>
         ELSE
         /\ cols' = cs
         /\ IF bad
            THEN /\ ret' = "invalid header length"
                 /\ pc' = "return"
                 /\ UNCHANGED <<header, deferred, buf, out, bufErr, rowID>>
            ELSE /\ header' = hd
                 /\ deferred' = TRUE
                 /\ buf' = w1.buf /\ out' = w1.out /\ bufErr' = w1.err
                 /\ IF w1.err
                    THEN ret' = "failed to write headers" /\ pc' = "return" /\ rowID' = rowID
                    ELSE IF c.limit = 0
                    THEN ret' = "nil" /\ pc' = "return" /\ rowID' = rowID
                    ELSE ret' = ret /\ pc' = "next" /\ rowID' = 1
  /\ UNCHANGED <<c, input, rows, sinkOK, values, row, cur, hist, latePulls>>

\* loop body up to the filter: ScanRow, conversion of every cell, filter
CsvScan ==
  /\ pc = "scan" /\ c.kind = "csv"
  /\ \E fault \in Faults(rows) :
     LET r == ScanRow(rows, fault)
     IN  /\ rows' = r.rows
         /\ latePulls' = Pull(1)
         /\ IF r.err # "nil"
            THEN /\ ret' = r.err /\ pc' = ScanErrorExit
                 /\ UNCHANGED <<values, row, cur, hist>>
            ELSE IF Len(r.values) < Len(cols)
            THEN /\ ret' = IndexPanic /\ pc' = "return"
                 /\ UNCHANGED <<values, row, cur, hist>>
            ELSE LET conv == [i \in 1..Len(r.values) |->
                                IF i <= Len(cols) THEN CsvToString(r.values[i]) ELSE <<>>]
                     k == ScannedIndex(r.rows)
                 IN  /\ ret' = ret
                     /\ \E writeRow \in Keeps :
                          /\ hist' = Append(hist, Pass(k, RowNumber(rowID), writeRow))
                          /\ IF writeRow
                             THEN /\ row' \in (IF c.preProcessorFunc = "nil"
                                               THEN {conv} ELSE Rewrites(conv))
                                  /\ values' = r.values
                                  /\ cur' = k
                                  /\ pc' = "emit"
                             ELSE /\ UNCHANGED <<values, row, cur>>
                                  /\ pc' = "next"
  /\ UNCHANGED <<c, input, sinkOK, out, buf, bufErr, deferred, cols, header, rowID>>

\* loop body for a kept row: deferred header, record, limit check
CsvEmit ==
  /\ pc = "emit" /\ c.kind = "csv"
  /\ LET w0 == [buf |-> buf, out |-> out, err |-> bufErr]
         w1 == IF CsvLazyHeader(rowID) THEN CsvWriterWrite(w0, Tok("header", 0, "", header)) ELSE w0
         w2 == IF w1.err THEN w1 ELSE CsvWriterWrite(w1, Tok("row", cur, "", row))
     IN  /\ buf' = w2.buf /\ out' = w2.out /\ bufErr' = w2.err
         /\ IF w1.err
            THEN ret' = "failed to write headers" /\ pc' = "return" /\ rowID' = rowID
            ELSE IF w2.err
            THEN ret' = "could not write row" /\ pc' = "return" /\ rowID' = rowID
            ELSE IF CsvLimitReached(rowID)
            THEN ret' = "nil" /\ pc' = "return" /\ rowID' = rowID
            ELSE ret' = ret /\ pc' = "next" /\ rowID' = rowID + 1
  /\ values' = <<>> /\ row' = <<>> /\ cur' = 0
  /\ c' = Receiver(c)
  /\ UNCHANGED <<input, rows, sinkOK, deferred, cols, header, hist, latePulls>>

\* return of Write: `defer csvWriter.Flush()`
CsvReturn ==
  /\ pc = "return" /\ c.kind = "csv"
  /\ LET w == IF deferred
              THEN CsvWriterFlush([buf |-> buf, out |-> out, err |-> bufErr])
              ELSE [buf |-> buf, out |-> out, err |-> bufErr]
     IN  buf' = w.buf /\ out' = w.out /\ bufErr' = w.err
  /\ pc' = "done"
  /\ UNCHANGED <<c, input, rows, sinkOK, deferred, locals, hist, latePulls, ret>>

\* ------------------------------------------------------------- json codec
\* the value stored in the row map for one cell: the raw value, or the
\* result of the override registered for its type
JsonCell(v) ==
  IF v.ty \in DOMAIN c.customMapper
  THEN LET s == c.customMapper[v.ty]
       IN  IF s.IsNULL THEN NilV ELSE [ty |-> "string", v |-> s.String]
  ELSE v

\* `fn(v.(T), metadata)` for a nil cell: the lookup finds the override of an
\* interface type and the type assertion on the nil value panics
JsonPanics(vs, n) ==
  \E i \in 1..n : vs[i].ty = "nil" /\ "nil" \in DOMAIN c.customMapper

\* a value json.Marshal has no encoding for
ChanV == [ty |-> "chan", v |-> <<"0xc000">>]

\* the map returned by the filter callback for a kept row
JsonRewrites(r) ==
  IF r = <<>> THEN { r } ELSE { r, [r EXCEPT ![1] = StrA], [r EXCEPT ![1] = ChanV] }

\* variant: the error of json.Marshal(row) is not looked at
JsonMarshalErrorIgnored(r) == FALSE

\* json.Marshal(row) fails when a value of the map has no encoding
JsonRowFails(r) == \E i \in 1..Len(r) : JsonMarshal(r[i]).err

\* `[` goes before the first row of an array
JsonOpen(id) == ~c.newlineDelimited /\ id = 1

\* variant: the separator goes before every row
JsonSepEveryRow(id) == TRUE

\* `,` goes before every later row
JsonSep(id) == id # 1

\* variant: the deferred function does not look at the mode
JsonCloseAnyMode(id) == id # 1

\* deferred function: the array is closed
JsonClose(id) == ~c.newlineDelimited /\ id # 1

\* variant: the limit test is off by one
JsonLimitReachedLate(id) == c.limit >= 0 /\ id > c.limit

\* `c.limit >= 0 && rowID >= c.limit`
JsonLimitReached(id) == c.limit >= 0 /\ id >= c.limit

JsonBegin ==
  /\ pc = "begin" /\ c.kind = "json"
  /\ \E fault \in Faults(rows) :
     LET cc == Columns(rows, fault)
     IN  IF cc.err # "nil"
         THEN /\ ret' = cc.err /\ pc' = ColumnsErrorExit
              /\ UNCHANGED <<cols, rowID, deferred>>
         ELSE /\ cols' = cc.cols
              /\ rowID' = 1
              /\ deferred' = TRUE
              /\ IF c.limit = 0
                 THEN ret' = "nil" /\ pc' = "return"
                 ELSE ret' = ret /\ pc' = "next"
  /\ UNCHANGED <<c, input, rows, sinkOK, out, buf, bufErr, header, values, row, cur, hist, latePulls>>

JsonScan ==
  /\ pc = "scan" /\ c.kind = "json"
  /\ \E fault \in Faults(rows) :
     LET r == ScanRow(rows, fault)
     IN  /\ rows' = r.rows
         /\ latePulls' = Pull(1)
         /\ IF r.err # "nil"
            THEN /\ ret' = r.err /\ pc' = ScanErrorExit
                 /\ UNCHANGED <<values, row, cur, hist>>
            ELSE IF Len(r.values) < Len(cols)
            THEN /\ ret' = IndexPanic /\ pc' = "return"
                 /\ UNCHANGED <<values, row, cur, hist>>
            ELSE IF JsonPanics(r.values, Len(cols))
            THEN /\ ret' = "panic: interface conversion" /\ pc' = "return"
                 /\ UNCHANGED <<values, row, cur, hist>>
            ELSE LET conv == [i \in 1..Len(cols) |-> JsonCell(r.values[i])]
                     k == ScannedIndex(r.rows)
                 IN  /\ ret' = ret
                     /\ \E writeRow \in Keeps :
                          /\ hist' = Append(hist, Pass(k, RowNumber(rowID), writeRow))
                          /\ IF writeRow
                             THEN /\ row' \in (IF c.preProcessorFunc = "nil"
                                               THEN {conv} ELSE JsonRewrites(conv))
                                  /\ values' = r.values
                                  /\ cur' = k
                                  /\ pc' = "emit"
                             ELSE /\ UNCHANGED <<values, row, cur>>
                                  /\ pc' = "next"
  /\ UNCHANGED <<c, input, sinkOK, out, buf, bufErr, deferred, cols, header, rowID>>

JsonEmit ==
  /\ pc = "emit" /\ c.kind = "json"
  /\ LET data == Tok("object", cur, "", [i \in 1..Len(row) |-> JsonMarshal(row[i]).data])
         open == IF JsonOpen(rowID) THEN << Tok("[", 0, "", <<>>) >> ELSE <<>>
         sep  == IF JsonSep(rowID) THEN << Tok(",", 0, "", <<>>) >> ELSE <<>>
         body == IF ~c.newlineDelimited
                 THEN sep \o << Tok("\n", 0, "", <<>>), data >>
                 ELSE << data, Tok("\n", 0, "", <<>>) >>
     IN  IF JsonRowFails(row)
         THEN /\ ret' = "json: unsupported type" /\ pc' = "return"
              /\ UNCHANGED <<out, rowID>>
         ELSE /\ out' = Put(out, open \o body)
              /\ IF JsonLimitReached(rowID)
                 THEN ret' = "nil" /\ pc' = "return" /\ rowID' = rowID
                 ELSE ret' = ret /\ pc' = "next" /\ rowID' = rowID + 1
  /\ values' = <<>> /\ row' = <<>> /\ cur' = 0
  /\ c' = Receiver(c)
  /\ UNCHANGED <<input, rows, sinkOK, buf, bufErr, deferred, cols, header, hist, latePulls>>

JsonReturn ==
  /\ pc = "return" /\ c.kind = "json"
  /\ out' = IF deferred /\ JsonClose(rowID)
            THEN Put(out, << Tok("\n]\n", 0, "", <<>>) >>) ELSE out
  /\ pc' = "done"
  /\ UNCHANGED <<c, input, rows, sinkOK, buf, bufErr, deferred, locals, hist, latePulls, ret>>

\* ------------------------------------------------------------- html.go
\* variant: the NULL flag of an override's result is not looked at
HtmlToStringIgnoresFlag(v) ==
  IF v.ty = "nil" THEN c.nullValue
  ELSE IF v.ty \in DOMAIN c.customMapper
       THEN c.customMapper[v.ty].String
       ELSE LET s == ToString(v) IN IF s.IsNULL THEN c.nullValue ELSE s.String

\* htmlCodec.toString
HtmlToString(v) ==
  IF v.ty = "nil" THEN c.nullValue
  ELSE IF v.ty \in DOMAIN c.customMapper
       THEN LET s == c.customMapper[v.ty] IN IF s.IsNULL THEN c.nullValue ELSE s.String
       ELSE LET s == ToString(v) IN IF s.IsNULL THEN c.nullValue ELSE s.String

\* htmlPrefix, <thead>, one <th> per column, </thead>
HtmlHeader(cs) ==
  << Tok("htmlPrefix", 0, "", <<>>), Tok("<thead>", 0, "", <<>>) >>
    \o [i \in 1..Len(cs) |-> Tok("<th>", 0, cs[i].name, << <<cs[i].goType>> >>)]
    \o << Tok("</thead>", 0, "", <<>>) >>

\* header written before the loop
HtmlEagerHeader(cs) == c.writeHeader /\ c.writeHeaderNoData /\ Len(cs) # 0

\* header written with the first kept row
HtmlLazyHeader(id) == c.writeHeader /\ id = 1 /\ ~c.writeHeaderNoData

\* variant: the limit test is off by one
HtmlLimitReachedLate(id) == c.limit >= 0 /\ id > c.limit

\* `c.limit >= 0 && rowID >= c.limit`
HtmlLimitReached(id) == c.limit >= 0 /\ id >= c.limit

\* variant: a document that holds only the header is not closed
HtmlCloseNeedsRows(id, cs) ==
  IF id # 1
  THEN << Tok("</tbody>", 0, "", <<>>), Tok("</table></body></html>", 0, "", <<>>) >>
  ELSE <<>>

\* deferred function: closing tags
HtmlClose(id, cs) ==
  IF id # 1
  THEN << Tok("</tbody>", 0, "", <<>>), Tok("</table></body></html>", 0, "", <<>>) >>
  ELSE IF c.writeHeader /\ c.writeHeaderNoData /\ Len(cs) # 0
  THEN << Tok("</table></body></html>", 0, "", <<>>) >>
  ELSE <<>>

HtmlBegin ==
  /\ pc = "begin" /\ c.kind = "html"
  /\ \E fault \in Faults(rows) :
     LET cc == Columns(rows, fault)
     IN  IF cc.err # "nil"
         THEN /\ ret' = cc.err /\ pc' = ColumnsErrorExit
              /\ UNCHANGED <<cols, out, rowID, deferred>>
         ELSE /\ cols' = cc.cols
              /\ out' = IF HtmlEagerHeader(cc.cols)
                        THEN Put(out, HtmlHeader(cc.cols)) ELSE out
              /\ rowID' = 1
              /\ deferred' = TRUE
              /\ IF c.limit = 0
                 THEN ret' = "nil" /\ pc' = "return"
                 ELSE ret' = ret /\ pc' = "next"
  /\ UNCHANGED <<c, input, rows, sinkOK, buf, bufErr, header, values, row, cur, hist, latePulls>>

HtmlScan ==
  /\ pc = "scan" /\ c.kind = "html"
  /\ \E fault \in Faults(rows) :
     LET r == ScanRow(rows, fault)
     IN  /\ rows' = r.rows
         /\ latePulls' = Pull(1)
         /\ IF r.err # "nil"
            THEN /\ ret' = r.err /\ pc' = ScanErrorExit
                 /\ UNCHANGED <<values, row, cur, hist>>
            ELSE IF Len(r.values) > Len(cols)
            THEN /\ ret' = IndexPanic /\ pc' = "return"
                 /\ UNCHANGED <<values, row, cur, hist>>
            ELSE LET conv == [i \in 1..Len(r.values) |-> HtmlToString(r.values[i])]
                     k == ScannedIndex(r.rows)
                 IN  /\ ret' = ret
                     /\ \E writeRow \in Keeps :
                          /\ hist' = Append(hist, Pass(k, RowNumber(rowID), writeRow))
                          /\ IF writeRow
                             THEN /\ row' \in (IF c.preProcessorFunc = "nil"
                                               THEN {conv} ELSE Rewrites(conv))
                                  /\ values' = r.values
                                  /\ cur' = k
                                  /\ pc' = "emit"
                             ELSE /\ UNCHANGED <<values, row, cur>>
                                  /\ pc' = "next"
  /\ UNCHANGED <<c, input, sinkOK, out, buf, bufErr, deferred, cols, header, rowID>>

HtmlEmit ==
  /\ pc = "emit" /\ c.kind = "html"
  /\ LET hd == IF HtmlLazyHeader(rowID)
               THEN HtmlHeader(cols) ELSE <<>>
         tb == IF rowID = 1 THEN << Tok("<tbody>", 0, "", <<>>) >> ELSE <<>>
         tr == << Tok("<tr>", cur, "", <<>>) >>
                 \o [i \in 1..Len(row) |-> Tok("<td>", cur, "", << row[i] >>)]
                 \o << Tok("</tr>", cur, "", <<>>) >>
     IN  out' = Put(out, hd \o tb \o tr)
  /\ IF HtmlLimitReached(rowID)
     THEN ret' = "nil" /\ pc' = "return" /\ rowID' = rowID
     ELSE ret' = ret /\ pc' = "next" /\ rowID' = rowID + 1
  /\ values' = <<>> /\ row' = <<>> /\ cur' = 0
  /\ c' = Receiver(c)
  /\ UNCHANGED <<input, rows, sinkOK, buf, bufErr, deferred, cols, header, hist, latePulls>>

HtmlReturn ==
  /\ pc = "return" /\ c.kind = "html"
  /\ out' = IF deferred THEN Put(out, HtmlClose(rowID, cols)) ELSE out
  /\ pc' = "done"
  /\ UNCHANGED <<c, input, rows, sinkOK, buf, bufErr, deferred, locals, hist, latePulls, ret>>

\* ------------------------------------------------------------- xml.go
\* xmlCodec.toString
XmlToString(v) ==
  IF v.ty = "nil" THEN NULL
  ELSE IF v.ty \in DOMAIN c.customMapper THEN c.customMapper[v.ty]
  ELSE ToString(v)

\* xml.EscapeText, fragment by fragment
XmlEscape(ch) ==
  CASE ch = "<" -> "&lt;" [] ch = ">" -> "&gt;" [] ch = "&" -> "&amp;"
    [] ch = "\"" -> "&#34;" [] ch = "'" -> "&#39;" [] OTHER -> ch

EscapeText(t) == [i \in 1..Len(t) |-> XmlEscape(t[i])]

\* variant: the opening is written again before the second row
XmlOpenTwice(id) ==
  IF id <= 1 THEN << Tok("<?xml?>", 0, "", <<>>), Tok("<data>", 0, "", <<>>) >> ELSE <<>>

\* declaration and root element go before the first row
XmlOpen(id) ==
  IF id = 0 THEN << Tok("<?xml?>", 0, "", <<>>), Tok("<data>", 0, "", <<>>) >> ELSE <<>>

\* deferred function: the root element is closed
XmlClose(id) == IF id > 0 THEN << Tok("</data>", 0, "", <<>>) >> ELSE <<>>

\* variant: the test for a negative limit is missing
XmlLimitAlways(id) == id >= c.limit

\* `c.limit >= 0 && rowID >= c.limit`, after rowID++
XmlLimitReached(id) == c.limit >= 0 /\ id >= c.limit

XmlBegin ==
  /\ pc = "begin" /\ c.kind = "xml"
  /\ IF c.limit = 0
     THEN /\ ret' = "nil" /\ pc' = "return"
          /\ UNCHANGED <<cols, rowID, deferred>>
     ELSE \E fault \in Faults(rows) :
          LET cc == Columns(rows, fault)
          IN  IF cc.err # "nil"
              THEN /\ ret' = cc.err /\ pc' = ColumnsErrorExit
                   /\ UNCHANGED <<cols, rowID, deferred>>
              ELSE /\ cols' = cc.cols
                   /\ rowID' = 0
                   /\ deferred' = TRUE
                   /\ ret' = ret /\ pc' = "next"
  /\ UNCHANGED <<c, input, rows, sinkOK, out, buf, bufErr, header, values, row, cur, hist, latePulls>>

\* variant: NULL-rendering cells are not marked
NullOutNone(vs) == vs

\* the scanned row with every NULL-rendering cell overwritten by nil
NullOut(vs) == [i \in 1..Len(vs) |-> IF XmlToString(vs[i]).IsNULL THEN NilV ELSE vs[i]]

\* variant: the conversion leaves the scanned row as it is
OverwriteNothing(s, k, vs) == s

\* the slice scanner hands out its own row, so the overwrite reaches the data
Overwrite(s, k, vs) ==
  IF s.kind = "go-slice"
  THEN [s EXCEPT !.rows[k] = vs, !.lastRow = <<vs>>]
  ELSE s

XmlScan ==
  /\ pc = "scan" /\ c.kind = "xml"
  /\ \E fault \in Faults(rows) :
     LET r == ScanRow(rows, fault)
     IN  /\ latePulls' = Pull(1)
         /\ IF r.err # "nil"
            THEN /\ ret' = r.err /\ pc' = ScanErrorExit
                 /\ rows' = r.rows
                 /\ UNCHANGED <<values, row, cur, hist>>
            ELSE IF Len(r.values) > Len(cols)
            THEN /\ ret' = IndexPanic /\ pc' = "return"
                 /\ rows' = r.rows
                 /\ UNCHANGED <<values, row, cur, hist>>
            ELSE LET conv == [i \in 1..Len(r.values) |-> XmlToString(r.values[i]).String]
                     k == ScannedIndex(r.rows)
                 IN  /\ ret' = ret
                     /\ rows' = Overwrite(r.rows, k, NullOut(r.values))
                     /\ \E writeRow \in Keeps :
                          /\ hist' = Append(hist, Pass(k, XmlRowNumber(rowID), writeRow))
                          /\ IF writeRow
                             THEN /\ row' \in (IF c.preProcessorFunc = "nil"
                                               THEN {conv} ELSE Rewrites(conv))
                                  /\ values' = NullOut(r.values)
                                  /\ cur' = k
                                  /\ pc' = "emit"
                             ELSE /\ UNCHANGED <<values, row, cur>>
                                  /\ pc' = "next"
  /\ UNCHANGED <<c, input, sinkOK, out, buf, bufErr, deferred, cols, header, rowID>>

RECURSIVE XmlElems(_, _, _)
XmlElems(i, r, vs) ==
  IF i > Len(r) THEN <<>>
  ELSE (IF vs[i].ty = "nil" THEN <<>>
        ELSE << Tok("element", cur, cols[i].name, << EscapeText(r[i]) >>) >>)
       \o XmlElems(i + 1, r, vs)

XmlEmit ==
  /\ pc = "emit" /\ c.kind = "xml"
  /\ LET open == XmlOpen(rowID)
     IN  out' = Put(out, open \o << Tok("<row>", cur, "", <<>>) >>
                           \o XmlElems(1, row, values)
                           \o << Tok("</row>", cur, "", <<>>) >>)
  /\ rowID' = rowID + 1
  /\ IF XmlLimitReached(rowID + 1)
     THEN ret' = "nil" /\ pc' = "return"
     ELSE ret' = ret /\ pc' = "next"
  /\ values' = <<>> /\ row' = <<>> /\ cur' = 0
  /\ c' = Receiver(c)
  /\ UNCHANGED <<input, rows, sinkOK, buf, bufErr, deferred, cols, header, hist, latePulls>>

XmlReturn ==
  /\ pc = "return" /\ c.kind = "xml"
  /\ out' = IF deferred THEN Put(out, XmlClose(rowID)) ELSE out
  /\ pc' = "done"
  /\ UNCHANGED <<c, input, rows, sinkOK, buf, bufErr, deferred, locals, hist, latePulls, ret>>

Next ==
  \/ SinkFail
  \/ LoopNext
  \/ CsvBegin \/ CsvScan \/ CsvEmit \/ CsvReturn
  \/ JsonBegin \/ JsonScan \/ JsonEmit \/ JsonReturn
  \/ HtmlBegin \/ HtmlScan \/ HtmlEmit \/ HtmlReturn
  \/ XmlBegin \/ XmlScan \/ XmlEmit \/ XmlReturn

Spec == Init /\ [][Next]_vars

\* ------------------------------------------------- tostring.ToString alone
Instant == <<"2024-01-02T03:04:05.000000006Z">>

\* payloads: texts over a quote, a letter and the word null, and the
\* serializations ToString looks for
Texts ==
  SeqsUpTo({"\"", "a", "null"}, MaxText) \cup JsonNullTexts \cup { <<"NaN">> }

\* the values ToString is called with
ToStringInputs ==
  { NilV, TimeZero, [ty |-> "time.Time", v |-> Instant] }
    \cup [ty : Primitive \cup Marshalers \cup Stringers \cup {"named string", "struct", "chan"},
          v  : Texts]

\* a caller about to call ToString(v): v is held in values, the result goes to row
InitToString ==
  /\ c = [kind |-> "tostring", customMapper |-> NoMapper, preProcessorFunc |-> "nil",
          writeHeader |-> FALSE, writeHeaderNoData |-> FALSE, customHeader |-> NoHeader,
          newlineDelimited |-> FALSE, nullValue |-> <<>>, limit |-> -1]
  /\ rows = FromData(<<>>)
  /\ input = <<>>
  /\ sinkOK = TRUE
  /\ out = <<>>
  /\ buf = <<>>
  /\ bufErr = FALSE
  /\ pc = "tostring"
  /\ deferred = FALSE
  /\ cols = <<>>
  /\ header = <<>>
  /\ rowID = 0
  /\ values \in { <<v>> : v \in ToStringInputs }
  /\ row = <<>>
  /\ cur = 0
  /\ hist = <<>>
  /\ latePulls = 0
  /\ ret = ""

\* the call: row holds what ToString returned and the return statement taken
CallToString ==
  /\ pc = "tostring"
  /\ row' = << Dispatch(values[1]) >>
  /\ pc' = "returned"
  /\ UNCHANGED <<c, input, rows, sinkOK, out, buf, bufErr, deferred, cols, header, rowID,
                 values, cur, hist, latePulls, ret>>

NextToString == CallToString

SpecToString == InitToString /\ [][NextToString]_vars

\* ------------------------------------------- the in-memory source alone
\* a caller holding scanner.FromData(data) and calling its methods in any
\* order; hist is the log of the calls: the method, the cursor before and
\* after the call, whether it succeeded, its error and what it returned
\* (Next: the row it presents)
InitSlice ==
  /\ c = [kind |-> "caller", customMapper |-> NoMapper, preProcessorFunc |-> "nil",
          writeHeader |-> FALSE, writeHeaderNoData |-> FALSE, customHeader |-> NoHeader,
          newlineDelimited |-> FALSE, nullValue |-> <<>>, limit |-> -1]
  /\ rows \in { FromData(d) : d \in SeqsUpTo(RowPool, MaxRows) }
  /\ input = rows.rows
  /\ sinkOK = TRUE
  /\ out = <<>>
  /\ buf = <<>>
  /\ bufErr = FALSE
  /\ pc = "caller"
  /\ deferred = FALSE
  /\ cols = <<>>
  /\ header = <<>>
  /\ rowID = 0
  /\ values = <<>>
  /\ row = <<>>
  /\ cur = 0
  /\ hist = <<>>
  /\ latePulls = 0
  /\ ret = ""

Logged(op, ok, err, res, s) ==
  Append(hist, [op |-> op, at |-> rows.cursor, to |-> s.cursor,
                ok |-> ok, err |-> err, res |-> res])

CallNext ==
  /\ pc = "caller" /\ Len(hist) < MaxCalls
  /\ LET n == RowsNext(rows, FALSE)
     IN  /\ rows' = n.rows
         /\ hist' = Logged("Next", n.ok, "nil", IF n.ok THEN n.rows.lastRow ELSE <<>>, n.rows)
  /\ UNCHANGED <<c, input, sinkOK, out, buf, bufErr, pc, deferred, locals, latePulls, ret>>

CallScanRow ==
  /\ pc = "caller" /\ Len(hist) < MaxCalls
  /\ LET r == ScanRow(rows, FALSE)
     IN  /\ rows' = r.rows
         /\ hist' = Logged("ScanRow", r.err = "nil", r.err, r.values, r.rows)
  /\ UNCHANGED <<c, input, sinkOK, out, buf, bufErr, pc, deferred, locals, latePulls, ret>>

CallColumns ==
  /\ pc = "caller" /\ Len(hist) < MaxCalls
  /\ LET cc == Columns(rows, FALSE)
     IN  hist' = Logged("Columns", cc.err = "nil", cc.err, cc.cols, rows)
  /\ UNCHANGED <<c, input, rows, sinkOK, out, buf, bufErr, pc, deferred, locals, latePulls, ret>>

NextSlice == CallNext \/ CallScanRow \/ CallColumns

SpecSlice == InitSlice /\ [][NextSlice]_vars

\* ================================================================ properties
Done == pc = "done"

\* everything the writer has emitted: what reached the io.Writer and, for
\* the CSV writer, what the csv.Writer still buffers
Emitted == out \o buf

IsRow(t) == t.t \in {"row", "object", "<tr>", "<row>"}

\* the data rows emitted, as source row indices
Written == SelectSeq(Emitted, IsRow)
WrittenIdx == [i \in 1..Len(Written) |-> Written[i].r]

IsKept(h) == h.keep
Kept == SelectSeq(hist, IsKept)
KeptIdx == [i \in 1..Len(Kept) |-> Kept[i].r]

\* every row the source delivers has been handed to the filter: the table
\* is used up, or the cursor broke and delivers no more
Exhausted == Len(hist) = Len(input) \/ RowsErr(rows) # "nil"

\* C1: when Write returns nil under a row limit N >= 0, the data rows emitted
\* are exactly the first min(N, K) rows the filter keeps, in source order:
\* every row kept so far and nothing else, at most N of them, and fewer than
\* N only when the whole source has been read.
C1_RowLimit ==
  (Done /\ ret = "nil" /\ c.limit >= 0) =>
    /\ \A i \in 1..Len(hist) : hist[i].r = i
    /\ WrittenIdx = KeptIdx
    /\ Len(WrittenIdx) <= c.limit
    /\ (Len(WrittenIdx) = c.limit \/ Exhausted)

\* the limit stops the writer after a dropped and a kept row, one row unread
C1_Witness ==
  /\ Done /\ ret = "nil" /\ c.limit = 1
  /\ Len(input) = 3 /\ Len(hist) = 2
  /\ ~hist[1].keep /\ WrittenIdx = <<2>>

\* the count compared against the limit, as a number of kept rows
KeptCount == IF c.kind = "xml" THEN rowID ELSE rowID - 1

\* C2: a row the filter drops contributes nothing to the output and does not
\* advance the row counter; the counter equals the number of rows kept, and a
\* run that ends by the limit before the source is exhausted has written N rows.
C2_DroppedRow ==
  /\ [][ (Len(hist') = Len(hist) + 1 /\ ~hist'[Len(hist')].keep)
           => (out' = out /\ buf' = buf /\ rowID' = rowID) ]_vars
  /\ [](\A i \in 1..Len(hist) : \A j \in 1..Len(Emitted) :
          ~hist[i].keep => Emitted[j].r # hist[i].r)
  /\ [](pc \in {"next", "scan"} => KeptCount = Len(Kept))
  /\ []((Done /\ ret = "nil" /\ c.limit >= 0 /\ ~Exhausted) => Len(Written) = c.limit)

\* a dropped row followed by two written rows under limit 2
C2_Witness ==
  /\ Done /\ ret = "nil" /\ c.limit = 2
  /\ Len(hist) = 3 /\ ~hist[1].keep
  /\ WrittenIdx = <<2, 3>>

HasTok(o, t) == \E i \in 1..Len(o) : o[i].t = t
Count(o, t) == Cardinality({ i \in 1..Len(o) : o[i].t = t })

\* C3: in JSON array mode the output of a finished Write is empty when no row
\* was written, and otherwise begins with `[` and ends with the closing
\* `\n]\n`.
C3_ArrayClosed ==
  (Done /\ c.kind = "json" /\ ~c.newlineDelimited) =>
    \/ (out = <<>> /\ Written = <<>>)
    \/ (Written # <<>> /\ out[1].t = "[" /\ out[Len(out)].t = "\n]\n")

\* the array is closed in every run that ends otherwise than by limit 1
C3_ClosedUnlessLimitOne ==
  (Done /\ c.kind = "json" /\ ~c.newlineDelimited /\ c.limit # 1) =>
    \/ (out = <<>> /\ Written = <<>>)
    \/ (Written # <<>> /\ out[1].t = "[" /\ out[Len(out)].t = "\n]\n")

\* C4: when the HTML writer returns, `</table></body></html>` has been
\* emitted if and only if a header was emitted or a row was written, and a
\* run without header and without rows leaves the output empty.
C4_HtmlClosed ==
  (Done /\ c.kind = "html") =>
    /\ HasTok(out, "</table></body></html>") <=> (HasTok(out, "<thead>") \/ Written # <<>>)
    /\ (~HasTok(out, "<thead>") /\ Written = <<>>) => out = <<>>

\* the document is closed as claimed in every run that ends otherwise than by limit 1
C4_ClosedUnlessLimitOne ==
  (Done /\ c.kind = "html" /\ c.limit # 1) =>
    /\ HasTok(out, "</table></body></html>") <=> (HasTok(out, "<thead>") \/ Written # <<>>)
    /\ (~HasTok(out, "<thead>") /\ Written = <<>>) => out = <<>>

\* C5: the XML writer writes the declaration and `<data>` once, immediately
\* before the first kept row; while no row has been written the output is
\* empty; `</data>` is written on return, once and last, exactly when a row
\* was written.
C5_XmlFraming ==
  c.kind = "xml" =>
    /\ Count(out, "<?xml?>") <= 1 /\ Count(out, "<data>") <= 1
    /\ Written = <<>> => out = <<>>
    /\ Written # <<>> =>
         out[1].t = "<?xml?>" /\ out[2].t = "<data>" /\ out[3].t = "<row>"
    /\ ~Done => ~HasTok(out, "</data>")
    /\ Done => /\ Count(out, "</data>") = (IF Written # <<>> THEN 1 ELSE 0)
               /\ Written # <<>> => out[Len(out)].t = "</data>"

\* two rows written after a dropped one, the document closed
C5_Witness ==
  /\ c.kind = "xml" /\ Done
  /\ Len(hist) = 3 /\ ~hist[1].keep /\ Len(Written) = 2
  /\ out[Len(out)].t = "</data>"

\* a cell that is NULL for the XML writer: nil, the zero timestamp, a
\* serialization inferred as NULL, or a type whose override reports NULL
C6_IsNull(v) ==
  \/ v.ty = "nil"
  \/ (v.ty = "time.Time" /\ v.v = ZeroInstant)
  \/ (v.ty = "json.Marshaler" /\ v.v \in { <<"[", "]">>, <<"{", "}">>, <<"null">> })
  \/ (v.ty # "nil" /\ v.ty \in DOMAIN c.customMapper /\ c.customMapper[v.ty].IsNULL)

RECURSIVE C6_Expected(_, _)
C6_Expected(vs, i) ==
  IF i > Len(vs) THEN <<>>
  ELSE (IF C6_IsNull(vs[i]) THEN <<>> ELSE << cols[i].name >>) \o C6_Expected(vs, i + 1)

IsHeader(t) == t.t \in {"header", "<thead>"}
Headers == SelectSeq(Emitted, IsHeader)
Pos(o, t) == { i \in 1..Len(o) : o[i].t = t }
HeaderPos == { i \in 1..Len(Emitted) : IsHeader(Emitted[i]) }
RowPos == { i \in 1..Len(Emitted) : IsRow(Emitted[i]) }

HeaderOnly == Len(Headers) = 1 /\ Written = <<>>

\* C8 as stated: over a source with zero rows the CSV and HTML writers
\* produce header-only output when emit-header and emit-header-when-empty are
\* both true and empty output otherwise; the JSON array and XML writers
\* produce empty output.
C8_EmptySource ==
  (Done /\ Len(input) = 0) =>
    IF c.kind \in {"csv", "html"}
    THEN IF c.writeHeader /\ c.writeHeaderNoData THEN HeaderOnly ELSE out = <<>>
    ELSE out = <<>>

\* C8 amended: over a source with zero rows the CSV and HTML writers produce
\* header-only output when emit-header and emit-header-when-empty are both
\* true, the source reports at least one column and a custom CSV header has
\* as many names as there are columns, and empty output otherwise; the JSON
\* and XML writers produce empty output.
C8_EmptySourceWithColumns ==
  (Done /\ Len(input) = 0) =>
    IF c.kind \in {"csv", "html"}
    THEN IF /\ c.writeHeader /\ c.writeHeaderNoData /\ Len(cols) # 0
            /\ ~(c.customHeader.set /\ Len(c.customHeader.h) # Len(cols))
         THEN HeaderOnly ELSE out = <<>>
    ELSE out = <<>>

\* an empty result set with columns: the HTML writer emits header and closing
C8_Witness ==
  /\ Done /\ Len(input) = 0 /\ rows.kind = "sql" /\ c.kind = "html"
  /\ c.writeHeader /\ c.writeHeaderNoData
  /\ HeaderOnly /\ out[Len(out)].t = "</table></body></html>"

\* C9: with a custom header whose length differs from the column count the
\* CSV writer emits nothing, leaves the row source where it was, and returns
\* an error: the header-length error once the source has reported its columns.
C9_HeaderLength ==
  (c.kind = "csv" /\ c.customHeader.set /\ Len(c.customHeader.h) # Len(rows.columns)) =>
    /\ Emitted = <<>>
    /\ rows.cursor = 0 /\ rows.lastRow = <<>> /\ hist = <<>>
    /\ pc \in {"begin", "return", "done"}
    /\ pc \in {"return", "done"} =>
         ret = (IF cols = <<>> /\ rows.columns # <<>>
                THEN "sql: column types failed" ELSE "invalid header length")

\* a one-name header over a two-column table, header emission always on
C9_Witness ==
  /\ c.kind = "csv" /\ Done /\ c.writeHeader /\ c.writeHeaderNoData
  /\ Len(c.customHeader.h) = 1 /\ Len(rows.columns) = 2 /\ Len(input) = 2
  /\ ret = "invalid header length" /\ out = <<>>

\* C10: once a write to the sink has failed, Write returns an error, the
\* failed write is the last one issued, and the source is not pulled again.
C10_SinkError ==
  (Done /\ SinkFailed) =>
    /\ ret # "nil"
    /\ \A i \in Failed(out) : i = Len(out)
    /\ latePulls = 0

Returning == pc \in {"return", "done"}

\* C11: when the loop ends because Next reports no more rows, Write returns
\* the source's last error.
C11_LastError ==
  (Returning /\ RowsErr(rows) # "nil") => ret = RowsErr(rows)

\* the CSV, HTML and XML writers return the source's last error
C11_LastErrorExceptJson ==
  (Returning /\ RowsErr(rows) # "nil" /\ c.kind # "json") => ret = RowsErr(rows)

\* reading a row has failed
ReadFailed == rows.scanErr # "nil"

IsClosing(t) == t.t \in {"\n]\n", "</table></body></html>", "</data>"}

\* C13: when Write returns a row-read or serialization error after a row was
\* written, no closing framing is in the output.
C13_NoClosingOnError ==
  (Done /\ Written # <<>> /\ (ReadFailed \/ ret = "json: unsupported type")) =>
    \A p \in 1..Len(out) : ~IsClosing(out[p])

\* row j of the table has not as many values as there are columns
C14_Mismatched(j) == Len(input[j]) # Len(rows.columns)

\* C14: a source row whose length differs from the column count is never
\* handed out nor emitted, Write returns the length error once it comes to
\* that row, and every emitted row has as many cells as its source row.
C14_RowLength ==
  /\ \A j \in 1..Len(input) :
       C14_Mismatched(j) =>
         /\ \A p \in 1..Len(Emitted) : Emitted[p].r # j
         /\ rows.cursor < j
         /\ (Returning /\ rows.cursor = j - 1 /\ rows.lastRow = << input[j] >>)
              => ret = "length of row != length of the first row"
  /\ \A p \in 1..Len(Emitted) :
       Emitted[p].t = "row" => Len(Emitted[p].s) = Len(input[Emitted[p].r])

\* a two-column table whose second row has one value
C14_Witness ==
  /\ Done /\ c.kind = "csv" /\ input = << <<Int1, StrLt>>, <<MarshNull>> >>
  /\ ret = "length of row != length of the first row"
  /\ WrittenIdx = <<1>>

\* the text the filter of the model may put in the first cell of a row
Rewritten(i, t) ==
  /\ c.preProcessorFunc = "fn" /\ i = 1
  /\ t = (IF c.kind = "json" THEN JsonQuote(<<"a">>) ELSE <<"x">>)

\* cell i of the data row emitted at position p is rendered as NULL: the
\* null text (CSV), the null fragment (HTML), JSON null, no element (XML)
NullAt(p, i) ==
  LET r == Emitted[p].r
  IN  CASE c.kind = "csv"  -> Emitted[p].s[i] = c.nullValue \/ Rewritten(i, Emitted[p].s[i])
        [] c.kind = "json" -> Emitted[p].s[i] = <<"null">> \/ Rewritten(i, Emitted[p].s[i])
        [] c.kind = "html" ->
             /\ p + i <= Len(out) /\ out[p + i].t = "<td>"
             /\ out[p + i].s = << c.nullValue >> \/ Rewritten(i, out[p + i].s[1])
        [] OTHER ->
             \A q \in 1..Len(out) :
               ~(out[q].t = "element" /\ out[q].r = r /\ out[q].n = cols[i].name)

\* C15: no writer hands a nil cell to an override, and every nil cell of an
\* emitted row is rendered as NULL.
C15_NilIsNull ==
  /\ ret # "panic: interface conversion"
  /\ \A p \in 1..Len(Emitted) :
       IsRow(Emitted[p]) =>
         \A i \in 1..Len(input[Emitted[p].r]) :
           input[Emitted[p].r][i].ty = "nil" => NullAt(p, i)

\* every nil cell of a row that is emitted is rendered as NULL
C15_NilIsNullWhenEmitted ==
  \A p \in 1..Len(Emitted) :
    IsRow(Emitted[p]) =>
      \A i \in 1..Len(input[Emitted[p].r]) :
        input[Emitted[p].r][i].ty = "nil" => NullAt(p, i)

\* C16: every zero timestamp of an emitted row is rendered as NULL.
C16_ZeroTimeIsNull ==
  \A p \in 1..Len(Emitted) :
    IsRow(Emitted[p]) =>
      \A i \in 1..Len(input[Emitted[p].r]) :
        input[Emitted[p].r][i] = TimeZero => NullAt(p, i)

\* the CSV, HTML and XML writers render every zero timestamp as NULL
C16_ZeroTimeExceptJson ==
  c.kind # "json" =>
    \A p \in 1..Len(Emitted) :
      IsRow(Emitted[p]) =>
        \A i \in 1..Len(input[Emitted[p].r]) :
          input[Emitted[p].r][i] = TimeZero => NullAt(p, i)

\* what a non-nil cell must render as: the result of the override registered
\* for its runtime type, or else of the default renderer
C17_Expected(v) ==
  IF v.ty \in DOMAIN c.customMapper THEN c.customMapper[v.ty] ELSE ToString(v)

C17_Text(v) ==
  IF C17_Expected(v).IsNULL THEN c.nullValue ELSE C17_Expected(v).String

\* cell i of the data row emitted at position p carries the expected rendering
C17_CellAt(p, i) ==
  LET r == Emitted[p].r
      v == input[r][i]
  IN  CASE c.kind = "csv" -> Emitted[p].s[i] = C17_Text(v) \/ Rewritten(i, Emitted[p].s[i])
        [] c.kind = "html" ->
             /\ p + i <= Len(out) /\ out[p + i].t = "<td>"
             /\ out[p + i].s = << C17_Text(v) >> \/ Rewritten(i, out[p + i].s[1])
        [] OTHER ->
             IF C17_Expected(v).IsNULL
             THEN \A q \in 1..Len(out) :
                    ~(out[q].t = "element" /\ out[q].r = r /\ out[q].n = cols[i].name)
             ELSE \E q \in 1..Len(out) :
                    /\ out[q].t = "element" /\ out[q].r = r /\ out[q].n = cols[i].name
                    /\ out[q].s = << EscapeText(C17_Expected(v).String) >>
                         \/ Rewritten(i, out[q].s[1])

\* C17: in the CSV, HTML and XML writers a non-nil cell whose runtime type has
\* an override is rendered by the override's result, text and NULL flag, and
\* a cell of any other type by the default renderer.
C17_OverrideFirst ==
  c.kind \in {"csv", "html", "xml"} =>
    \A p \in 1..Len(Emitted) :
      IsRow(Emitted[p]) =>
        \A i \in 1..Len(input[Emitted[p].r]) :
          input[Emitted[p].r][i].ty # "nil" => C17_CellAt(p, i)

\* an int cell made NULL and a string cell replaced by their overrides, and
\* a timestamp cell left to the default renderer
C17_Witness ==
  /\ c.kind = "html" /\ Done /\ c.customMapper = Overrides /\ c.preProcessorFunc = "nil"
  /\ c.writeHeader = FALSE
  /\ input = << <<Int1, StrLt>>, <<NilV, TimeZero>> >>
  /\ Len(out) >= 9
  /\ out[2].t = "<tr>" /\ out[3].s = << HtmlNull >> /\ out[4].s = << <<"override">> >>
  /\ out[6].t = "<tr>" /\ out[8].s = << HtmlNull >>

\* ------------------------------------------- properties of ToString alone
Returned == pc = "returned"

\* the rules of the renderer in their priority order
C18_Order ==
  << "nil", "primitive", "time.Time", "json.Marshaler", "fmt.Stringer", "json.Marshal", "%v" >>

\* a rule is applicable to the runtime shape of a value
C18_Shape(rule, v) ==
  CASE rule = "nil"            -> v.ty = "nil"
    [] rule = "primitive"      -> v.ty \in Primitive
    [] rule = "time.Time"      -> v.ty = "time.Time"
    [] rule = "json.Marshaler" -> v.ty \in Marshalers
    [] rule = "fmt.Stringer"   -> v.ty \in Stringers
    [] rule = "json.Marshal"   -> v.ty # "chan"
    [] OTHER                   -> TRUE

\* a serialization rule reports an error for the value
C18_Errs(rule, v) ==
  CASE rule = "json.Marshaler" -> MarshalJSON(v).err
    [] rule = "json.Marshal"   -> JsonMarshal(v).err
    [] OTHER                   -> FALSE

C18_First(S) == C18_Order[CHOOSE k \in S : \A j \in S : k <= j]

\* C18 as stated: the rule ToString renders a value by is the first rule in
\* the priority order that is applicable to the value's runtime shape.
C18_ShapeOnly ==
  Returned =>
    row[1].at = C18_First({ k \in 1..7 : C18_Shape(C18_Order[k], values[1]) })

\* C18 amended: the rule ToString renders a value by is the first rule in the
\* priority order that is applicable to the value's runtime shape and, if it
\* is a serialization rule, reports no error for the value.
C18_ShapeOrError ==
  Returned =>
    row[1].at = C18_First({ k \in 1..7 : /\ C18_Shape(C18_Order[k], values[1])
                                         /\ ~C18_Errs(C18_Order[k], values[1]) })

\* a value with both capabilities goes through its JSON serializer, and
\* through its String method when the serializer fails
C18_Witness ==
  /\ Returned /\ values[1].ty = "json.Marshaler+fmt.Stringer"
  /\ \/ values[1].v = <<"a">> /\ row[1].at = "json.Marshaler"
             /\ row[1].ret = [String |-> <<"a">>, IsNULL |-> FALSE]
     \/ values[1].v = <<>> /\ row[1].at = "fmt.Stringer"

\* one layer of enclosing double quotes removed from a quoted scalar
C19_StripOne(t) ==
  IF Len(t) >= 2 /\ t[1] = "\"" /\ t[Len(t)] = "\"" THEN SubSeq(t, 2, Len(t) - 1) ELSE t

\* the serialization ToString has rendered the value from
C19_Data(v, at) == IF at = "json.Marshaler" THEN MarshalJSON(v).data ELSE JsonMarshal(v).data

\* C19: a value rendered through custom or generic JSON serialization gives
\* the serialization with one layer of enclosing quotes removed, or NULL when
\* that text is `[]`, `{}` or `null`.
C19_OneLayer ==
  (Returned /\ row[1].at \in {"json.Marshaler", "json.Marshal"}) =>
    LET t == C19_StripOne(C19_Data(values[1], row[1].at))
    IN  row[1].ret = (IF t \in JsonNullTexts THEN NULL ELSE [String |-> t, IsNULL |-> FALSE])

\* ------------------------------------------------------------ row limit 0
\* the source did not report its columns to the writer that asked for them
C20_ColumnsFailed == rows.kind = "sql" /\ cols = <<>> /\ c.kind # "xml"

C20_BadHeader ==
  c.kind = "csv" /\ c.customHeader.set /\ Len(c.customHeader.h) # Len(cols)

\* C20 as stated: with limit 0 every writer returns nil and emits no data row;
\* CSV and HTML emit header-only output (HTML closed) when emit-header and
\* emit-header-when-empty are both true and nothing otherwise; JSON and XML
\* emit nothing.
C20_LimitZero ==
  (Done /\ c.limit = 0) =>
    /\ ret = "nil" /\ Written = <<>>
    /\ IF c.kind \in {"csv", "html"}
       THEN IF c.writeHeader /\ c.writeHeaderNoData
            THEN /\ HeaderOnly
                 /\ c.kind = "html" => out[Len(out)].t = "</table></body></html>"
            ELSE out = <<>>
       ELSE out = <<>>

\* C20 amended: with limit 0 no writer emits a data row or touches the rows
\* of the source; Write returns nil unless the source fails to report its
\* columns or a custom CSV header has the wrong length, and then it returns
\* that error and emits nothing; CSV and HTML emit header-only output (HTML
\* closed) when emit-header and emit-header-when-empty are both true and the
\* source reports at least one column, and nothing otherwise; JSON and XML
\* emit nothing.
C20_LimitZeroWithColumns ==
  (Done /\ c.limit = 0) =>
    /\ Written = <<>> /\ hist = <<>> /\ rows.cursor = 0 /\ rows.lastRow = <<>>
    /\ ret = (IF C20_ColumnsFailed THEN "sql: column types failed"
              ELSE IF C20_BadHeader THEN "invalid header length" ELSE "nil")
    /\ IF /\ c.kind \in {"csv", "html"} /\ ret = "nil"
          /\ c.writeHeader /\ c.writeHeaderNoData /\ Len(cols) # 0
       THEN /\ HeaderOnly
            /\ c.kind = "html" => out[Len(out)].t = "</table></body></html>"
       ELSE Emitted = <<>>

\* limit 0 over a table of two rows: the HTML writer emits header and closing
C20_Witness ==
  /\ Done /\ c.limit = 0 /\ c.kind = "html" /\ c.writeHeader /\ c.writeHeaderNoData
  /\ Len(input) = 2 /\ ret = "nil"
  /\ HeaderOnly /\ out[Len(out)].t = "</table></body></html>"

\* ------------------------------------------------------ column metadata
\* the writer asked the source for its columns and the call failed: a
\* database cursor that answers reports two columns
ColumnsFailed ==
  /\ pc # "begin" /\ rows.kind = "sql" /\ cols = <<>>
  /\ ~(c.kind = "xml" /\ c.limit = 0)

\* C21: when the source's Columns call fails, Write returns that error,
\* nothing is emitted and no row is asked of the source, whatever the
\* configuration of the writer.
C21_MetadataError ==
  ColumnsFailed =>
    /\ Returning /\ ret = "sql: column types failed"
    /\ Emitted = <<>>
    /\ hist = <<>> /\ rows.cursor = 0 /\ RowsErr(rows) = "nil"

\* the HTML writer with its header switched on, over a cursor with two rows
C21_Witness ==
  /\ Done /\ ColumnsFailed /\ c.kind = "html" /\ c.writeHeader /\ c.writeHeaderNoData
  /\ c.limit = 0 /\ Len(input) = 2
  /\ ret = "sql: column types failed" /\ out = <<>>

\* ------------------------------------------------------------ JSON writer
EncodingFailed == ret = "json: unsupported type"

\* C22: when a kept row holds a value without JSON encoding, the JSON writer
\* writes nothing for it and returns the serialization error; the rows written
\* before it stay in the output as they were, each with its own `[` or `,`
\* and newline, and no later row is read.
C22_EncodingError ==
  /\ [][ ( /\ pc = "emit" /\ c.kind = "json" /\ pc' # "emit"
           /\ \E i \in 1..Len(row) : row[i].ty = "chan" )
         => (out' = out /\ pc' = "return" /\ ret' = "json: unsupported type") ]_vars
  /\ [](EncodingFailed =>
          /\ Returning /\ c.kind = "json" /\ Kept # <<>>
          /\ WrittenIdx = SubSeq(KeptIdx, 1, Len(Kept) - 1)
          /\ \A p \in 1..Len(out) : out[p].r # Kept[Len(Kept)].r
          /\ Count(out, "[") = (IF Written # <<>> /\ ~c.newlineDelimited THEN 1 ELSE 0)
          /\ Count(out, ",") = (IF Written # <<>> /\ ~c.newlineDelimited
                                THEN Len(Written) - 1 ELSE 0)
          /\ Count(out, "\n") = Len(Written))
  /\ [][EncodingFailed => (rows' = rows /\ hist' = hist /\ Written' = Written)]_vars

\* the second kept row of an array cannot be serialized, the first one is written
C22_Witness ==
  /\ pc = "return" /\ c.kind = "json" /\ ~c.newlineDelimited /\ EncodingFailed
  /\ Len(input) = 3 /\ Len(hist) = 2 /\ WrittenIdx = <<1>>
  /\ Len(out) = 3 /\ out[1].t = "[" /\ out[3].t = "object"

\* C23: in line-delimited mode the output of the JSON writer is, at every
\* moment and on every exit path, the objects of the rows kept so far, each
\* followed by one newline, and nothing else: no `[`, no `,`, no `]`.
C23_LineDelimited ==
  (c.kind = "json" /\ c.newlineDelimited) =>
    /\ Len(out) = 2 * Len(Written)
    /\ Len(Written) <= Len(Kept)
    /\ \A k \in 1..Len(Written) :
         /\ out[2 * k - 1].t = "object" /\ out[2 * k - 1].r = KeptIdx[k]
         /\ out[2 * k].t = "\n"

\* two lines written under limit 2 after a dropped row
C23_Witness ==
  /\ Done /\ c.kind = "json" /\ c.newlineDelimited /\ c.limit = 2
  /\ Len(hist) = 3 /\ ~hist[1].keep /\ WrittenIdx = <<2, 3>>
  /\ Len(out) = 4 /\ out[4].t = "\n"

C25_Types == { Registrations[k].typ : k \in 1..Len(Registrations) }

\* the callback given last for a type
C25_Last(t) ==
  LET ks == { k \in 1..Len(Registrations) : Registrations[k].typ = t }
  IN  Registrations[CHOOSE k \in ks : \A j \in ks : j <= k].fn

\* cell i of the data row emitted at position p is what the result e of a
\* callback renders as
C25_CellAt(p, i, e) ==
  LET r == Emitted[p].r
      text == IF e.IsNULL THEN c.nullValue ELSE e.String
  IN  CASE c.kind = "csv" -> Emitted[p].s[i] = text \/ Rewritten(i, Emitted[p].s[i])
        [] c.kind = "json" ->
             \/ Emitted[p].s[i] = (IF e.IsNULL THEN <<"null">> ELSE JsonQuote(e.String))
             \/ Rewritten(i, Emitted[p].s[i])
        [] c.kind = "html" ->
             /\ p + i <= Len(out) /\ out[p + i].t = "<td>"
             /\ out[p + i].s = << text >> \/ Rewritten(i, out[p + i].s[1])
        [] OTHER ->
             IF e.IsNULL
             THEN \A q \in 1..Len(out) :
                    ~(out[q].t = "element" /\ out[q].r = r /\ out[q].n = cols[i].name)
             ELSE \E q \in 1..Len(out) :
                    /\ out[q].t = "element" /\ out[q].r = r /\ out[q].n = cols[i].name
                    /\ out[q].s = << EscapeText(e.String) >> \/ Rewritten(i, out[q].s[1])

\* C25: a codec built with several registrations holds, for each registered
\* type, the callback given last for it, and every non-nil cell of such a
\* type in an emitted row is rendered by that callback.
C25_LastRegistrationWins ==
  c.customMapper # NoMapper =>
    /\ DOMAIN c.customMapper = C25_Types
    /\ \A t \in C25_Types : c.customMapper[t] = C25_Last(t)
    /\ \A p \in 1..Len(Emitted) :
         IsRow(Emitted[p]) =>
           \A i \in 1..Len(input[Emitted[p].r]) :
             LET v == input[Emitted[p].r][i]
             IN  (v.ty # "nil" /\ v.ty \in C25_Types) => C25_CellAt(p, i, C25_Last(v.ty))

\* int was registered twice, string once: the int cell is NULL as the second
\* callback says and the string cell is the text of its own callback
C25_Witness ==
  /\ Done /\ c.kind = "csv" /\ c.customMapper # NoMapper /\ c.preProcessorFunc = "nil"
  /\ input = << <<Int1, StrLt>> >>
  /\ Len(Written) = 1 /\ Written[1].s = << <<>>, <<"override">> >>

\* ------------------------------------------------------------- CSV flush
\* the data rows handed to the sink, as source row indices
C26_SinkRows == [i \in 1..Len(SelectSeq(out, IsRow)) |-> SelectSeq(out, IsRow)[i].r]

\* the rows csv.Writer.Write has accepted: every kept row, but for the one
\* whose Write returned an error
C26_Accepted ==
  IF ret = "could not write row" THEN SubSeq(KeptIdx, 1, Len(Kept) - 1) ELSE KeptIdx

\* C26: when the CSV Write has returned, by whatever path, the csv.Writer
\* buffers nothing: the header and every row it accepted have been handed to
\* the sink, header first and rows in the order they were accepted.
C26_Flushed ==
  (Done /\ c.kind = "csv") =>
    /\ buf = <<>>
    /\ C26_SinkRows = C26_Accepted
    /\ (c.writeHeader /\ Kept # <<>>) => (out # <<>> /\ out[1].t = "header")

\* header and one row, fewer than the buffer flushes by itself, reach the
\* sink when the limit ends the Write; one row does when the cursor breaks
C26_Witness ==
  /\ Done /\ c.kind = "csv" /\ c.writeHeader /\ Len(input) = 3 /\ sinkOK /\ buf = <<>>
  /\ \/ c.limit = 1 /\ ret = "nil" /\ Len(out) = 2 /\ out[2].t = "row"
     \/ c.limit = -1 /\ ret = "sql: scan failed" /\ Len(out) = 2 /\ out[2].t = "row"

\* ------------------------------------------------------------- row limit
\* C27: with a negative limit a Write that returns nil has read every row the
\* source delivers and has written every row the filter kept, all of them
\* and in source order.
C27_NoLimit ==
  (Done /\ c.limit < 0 /\ ret = "nil") =>
    /\ Exhausted
    /\ \A i \in 1..Len(hist) : hist[i].r = i
    /\ WrittenIdx = KeptIdx

\* three rows read under the default limit, the second dropped
C27_Witness ==
  /\ Done /\ c.limit = -1 /\ ret = "nil" /\ c.kind = "xml"
  /\ Len(input) = 3 /\ Len(hist) = 3 /\ ~hist[2].keep
  /\ WrittenIdx = <<1, 3>>

\* the limit N > 0 is reached: N rows are written
LimitReached == c.limit > 0 /\ Len(Written) >= c.limit

\* C28: once the N-th kept row is written under a limit N > 0, Write is
\* returning and the source is not called again; under limit 0 Write never
\* enters the loop and the source's iterator is where it was.
C28_NoPullAfterLimit ==
  /\ [](LimitReached => (Returning /\ Len(Written) = c.limit))
  /\ [][LimitReached => (rows' = rows /\ hist' = hist)]_vars
  /\ [](c.limit = 0 =>
          /\ pc \in {"begin", "return", "done"}
          /\ rows.cursor = 0 /\ rows.lastRow = <<>> /\ RowsErr(rows) = "nil" /\ hist = <<>>)

\* limit 2 over a table of three rows: the third row is never read
C28_Witness ==
  /\ Done /\ c.limit = 2 /\ c.kind = "json" /\ Len(input) = 3
  /\ Len(hist) = 2 /\ WrittenIdx = <<1, 2>> /\ rows.cursor = 2

\* ------------------------------------------------------------ row numbers
\* one more than the number of rows kept before the i-th row read
C29_Number(i) == 1 + Len(SelectSeq(SubSeq(hist, 1, i - 1), IsKept))

\* C29: for every row read, the row number in the Metadata of its cells and
\* the row number given to the filter are the same number, which is one more
\* than the number of rows kept before it, in every writer.
C29_RowNumbers ==
  \A i \in 1..Len(hist) :
    /\ hist[i].meta = C29_Number(i)
    /\ c.preProcessorFunc # "nil" => hist[i].filter = C29_Number(i)

\* the XML writer over three rows, the first dropped: numbers 1, 1, 2
C29_Witness ==
  /\ Done /\ c.kind = "xml" /\ c.preProcessorFunc = "fn" /\ c.customMapper = Overrides
  /\ Len(hist) = 3 /\ ~hist[1].keep /\ hist[2].keep
  /\ hist[1].filter = 1 /\ hist[2].filter = 1 /\ hist[3].filter = 2 /\ hist[3].meta = 2

\* ------------------------------------------------------ order in the XML writer
\* the text cell v is converted to
C30_Converted(v) == IF v.ty = "nil" THEN <<>> ELSE C17_Expected(v).String

C31_Balanced ==
  (Done /\ c.kind = "html" /\ ret = "nil") =>
    /\ HasTok(out, "</table></body></html>") => HasTok(out, "htmlPrefix")
    /\ HasTok(out, "</tbody>") <=> HasTok(out, "<tbody>")

\* the framing is balanced when the header is emitted and the limit is not 1
C31_BalancedWithHeader ==
  (Done /\ c.kind = "html" /\ ret = "nil" /\ c.writeHeader /\ c.limit # 1) =>
    /\ HasTok(out, "</table></body></html>") => HasTok(out, "htmlPrefix")
    /\ HasTok(out, "</tbody>") <=> HasTok(out, "<tbody>")

\* ------------------------------------------------------------ JSON array
\* positions of the row objects in the output
C32_Objects == { p \in 1..Len(out) : out[p].t = "object" }

\* C32: in array mode `[` is written once, first, and only when a row is
\* written; the first object follows `[` and a newline, every later object
\* follows `,` and a newline; k rows make k - 1 separators, and every
\* object is a row the filter kept.
C32_ArraySeparators ==
  (c.kind = "json" /\ ~c.newlineDelimited) =>
    /\ Count(out, "[") = (IF Written # <<>> THEN 1 ELSE 0)
    /\ Count(out, ",") = (IF Written # <<>> THEN Len(Written) - 1 ELSE 0)
    /\ Written = <<>> => out = <<>>
    /\ \A p \in C32_Objects :
         /\ p >= 3 /\ out[p - 1].t = "\n"
         /\ out[p - 2].t = (IF \E q \in C32_Objects : q < p THEN "," ELSE "[")
         /\ (out[p - 2].t = "[") => p = 3
         /\ \E i \in 1..Len(hist) : hist[i].keep /\ hist[i].r = out[p].r

\* three rows read, the first dropped, two written with one separator
C32_Witness ==
  /\ Done /\ c.kind = "json" /\ ~c.newlineDelimited
  /\ Len(hist) = 3 /\ ~hist[1].keep /\ WrittenIdx = <<2, 3>>
  /\ Count(out, ",") = 1 /\ out[1].t = "[" /\ out[4].t = ","

\* ------------------------------------------------------------- streaming
\* the writer is about to ask the source for a row
Pulling == pc \in {"next", "scan"}

\* C33: whenever a writer asks the source for the next row, every row kept so
\* far has been handed to the sink.
C33_Streamed == Pulling => C26_SinkRows = KeptIdx

\* the JSON, HTML and XML writers hand every kept row to the sink before
\* they ask for the next one
C33_StreamedExceptCsv == (Pulling /\ c.kind # "csv") => C26_SinkRows = KeptIdx

\* -------------------------------------------------------- the caller's data
\* C34: the table an in-memory source was built from holds, at every moment
\* of a Write, the values the caller put in it.
C34_DataUnchanged == rows.kind = "go-slice" => rows.rows = input

\* the CSV, JSON and HTML writers leave the caller's table as it was
C34_DataUnchangedExceptXml ==
  (rows.kind = "go-slice" /\ c.kind # "xml") => rows.rows = input

\* ------------------------------------- properties of the in-memory source
IsIteration(e) == e.op \in {"Next", "ScanRow"}

\* the calls to Next and ScanRow, in order
Iter == SelectSeq(hist, IsIteration)

\* the caller alternates: Next, ScanRow, Next, ScanRow, ...
Alternating ==
  \A j \in 1..Len(Iter) : Iter[j].op = (IF j % 2 = 1 THEN "Next" ELSE "ScanRow")

\* what each single call does: Next leaves the cursor alone, succeeds exactly
\* when a row is left and presents the row at the cursor; a successful
\* ScanRow moves the cursor by one and a failed one leaves it; at the end
\* of the data ScanRow fails with EOF
C35_Calls ==
  \A j \in 1..Len(Iter) :
    LET e == Iter[j]
    IN  IF e.op = "Next"
        THEN /\ e.to = e.at
             /\ e.ok <=> e.at < Len(input)
             /\ e.ok => e.res = << input[e.at + 1] >>
        ELSE /\ e.to = (IF e.ok THEN e.at + 1 ELSE e.at)
             /\ e.at >= Len(input) => (~e.ok /\ e.err = "EOF")

\* the rows 2..k all have the length of the first row
C35_Regular(k) == \A m \in 2..k : Len(input[m]) = Len(input[1])

C36_Expected ==
  IF input = <<>> THEN <<>>
  ELSE [i \in 1..Len(input[1]) |->
          [index |-> i - 1, name |-> <<"column_0", "column_1">>[i],
           goType |-> input[1][i].ty]]

\* C36: every Columns call on an in-memory source, whenever it is made,
\* returns without error the descriptors inferred from the first row of the
\* data, named column_0, column_1, ... in order, and none for empty data.
C36_Columns ==
  \A i \in 1..Len(hist) :
    hist[i].op = "Columns" => (hist[i].ok /\ hist[i].err = "nil" /\ hist[i].res = C36_Expected)

\* Columns before and after the first row was read: column_0 and column_1
C36_Witness ==
  /\ Len(hist) = 4 /\ Len(input) = 2 /\ Len(input[1]) = 2
  /\ hist[1].op = "Columns" /\ hist[2].op = "Next" /\ hist[3].op = "ScanRow"
  /\ hist[4].op = "Columns" /\ hist[4].at = 1
  /\ Len(hist[4].res) = 2 /\ hist[4].res[2].name = "column_1"
  /\ hist[4].res = hist[1].res

\* ------------------------------------------------------------ termination
\* the steps of Write, the sink's failing left out
WriteStep ==
  \/ LoopNext
  \/ CsvBegin \/ CsvScan \/ CsvEmit \/ CsvReturn
  \/ JsonBegin \/ JsonScan \/ JsonEmit \/ JsonReturn
  \/ HtmlBegin \/ HtmlScan \/ HtmlEmit \/ HtmlReturn
  \/ XmlBegin \/ XmlScan \/ XmlEmit \/ XmlReturn

\* where Write stands within one iteration of the loop
C37_Rank == CASE pc = "scan" -> 0 [] pc = "next" -> 1 [] pc = "begin" -> 2 [] OTHER -> 3

\* a bound on the steps Write has left: four for every row not yet scanned,
\* the steps of the iteration under way, and the return
C37_Measure ==
  IF pc = "done" THEN 0
  ELSE IF pc = "return" THEN 1
  ELSE 2 + 4 * (Len(input) - rows.cursor) + C37_Rank

\* C37: over an in-memory source Write terminates: while it has not returned
\* it can take a step, every step it takes brings it strictly nearer to its
\* return, and every pass of the loop body scans one more row of the source
\* or returns.
C37_Terminates ==
  /\ [](rows.kind = "go-slice" =>
          /\ rows.cursor <= Len(input) /\ C37_Measure >= 0
          /\ ~Done => ENABLED WriteStep)
  /\ [][ (rows.kind = "go-slice" /\ sinkOK' = sinkOK) => C37_Measure' < C37_Measure ]_vars
  /\ [][ (rows.kind = "go-slice" /\ pc = "scan" /\ pc' # "scan")
            => (rows'.cursor = rows.cursor + 1 \/ pc' = "return") ]_vars

\* an unlimited Write with a filter over three rows has read them all, dropped
\* one and returned
C37_Witness ==
  /\ Done /\ rows.kind = "go-slice" /\ c.limit = -1 /\ c.preProcessorFunc = "fn"
  /\ Len(input) = 3 /\ Len(hist) = 3 /\ rows.cursor = 3 /\ ~hist[2].keep
  /\ ret = "nil" /\ C37_Measure = 0

====
